---- MODULE Spec2Model ----
(***************************************************************************)
(* Model of the Smart Cities comment store (src/app.py): the sentiment     *)
(* pipeline (traducir_es_en, analizar_sentimiento, clasificar_sentimiento),*)
(* the CSV-backed dataset (cargar_dataset, inicializar_dataset,            *)
(* agregar_comentario) and the Flask handlers that read and write it.      *)
(* clasificar_sentimiento of src/smartcities_analysis.py is modelled beside *)
(* the one of src/app.py.                                                  *)
(*                                                                         *)
(* Numbers: VADER rounds compound to 4 decimals and neg/neu/pos to 3, so   *)
(* compound is kept in units of 1/10000 and neg/neu/pos in units of 1/1000.*)
(* fecha is the clock reading in seconds; strftime's fixed-width format    *)
(* orders its strings as the clock orders its readings.                    *)
(***************************************************************************)
EXTENDS Integers, Sequences, FiniteSets, TLC

VARIABLES
    store,     \* the file data/comentarios.csv
    store0,    \* threaded server: the file as the requests found it
    session,   \* Flask session of each client: admin_logged_in
    now,       \* the clock, in seconds
    assigned,  \* history: the ids agregar_comentario gave to stored records
    resp,      \* history: the last request handled and its response
    pc,        \* threaded server: where each request thread stands
    treq,      \* threaded server: the request each thread handles
    tdf,       \* threaded server: the DataFrame each thread holds
    tres,      \* threaded server: what each thread returned
    arg,       \* a function called alone: what it is called with
    ret        \* a function called alone: what each module's function returned

vars == <<store, store0, session, now, assigned, resp, pc, treq, tdf, tres, arg, ret>>

\* ------------------------------------------------------------------ bounds

MaxSubmits == 2
MaxCompound == 10000
Margen == 25

\* --------------------------------------------------------------- constants

MaxLen == 1000
PosThreshold == 500
NegThreshold == -500
ADMIN_PASSWORD == "admin123"
Ultimos == 10

None == "<None>"
NaN == "<NaN>"

\* ------------------------------------------------------------------- texts

LongText == "aaaaaaaaaaaaaaaaaaaaaaaaaaaaaaaaaaaaaaaaaaaaaaaaaaaaaaaaaaaaaaaaaaaaaaaaaaaaaaaaaaaaaaaaaaaaaaaaaaaaaaaaaaaaaaaaaaaaaaaaaaaaaaaaaaaaaaaaaaaaaaaaaaaaaaaaaaaaaaaaaaaaaaaaaaaaaaaaaaaaaaaaaaaaaaaaaaaaaaaaaaaaaaaaaaaaaaaaaaaaaaaaaaaaaaaaaaaaaaaaaaaaaaaaaaaaaaaaaaaaaaaaaaaaaaaaaaaaaaaaaaaaaaaaaaaaaaaaaaaaaaaaaaaaaaaaaaaaaaaaaaaaaaaaaaaaaaaaaaaaaaaaaaaaaaaaaaaaaaaaaaaaaaaaaaaaaaaaaaaaaaaaaaaaaaaaaaaaaaaaaaaaaaaaaaaaaaaaaaaaaaaaaaaaaaaaaaaaaaaaaaaaaaaaaaaaaaaaaaaaaaaaaaaaaaaaaaaaaaaaaaaaaaaaaaaaaaaaaaaaaaaaaaaaaaaaaaaaaaaaaaaaaaaaaaaaaaaaaaaaaaaaaaaaaaaaaaaaaaaaaaaaaaaaaaaaaaaaaaaaaaaaaaaaaaaaaaaaaaaaaaaaaaaaaaaaaaaaaaaaaaaaaaaaaaaaaaaaaaaaaaaaaaaaaaaaaaaaaaaaaaaaaaaaaaaaaaaaaaaaaaaaaaaaaaaaaaaaaaaaaaaaaaaaaaaaaaaaaaaaaaaaaaaaaaaaaaaaaaaaaaaaaaaaaaaaaaaaaaaaaaaaaaaaaaaaaaaaaaaaaaaaaaaaaaaaaaaaaaaaaaaaaaaaaaaaaaaaaaaaaaaaaaaaaaaaaaaaaaaaaaaaaaaaaaaaaaaaaaaaaaaaaaaaaaaaaaaaaaaaaaaaaaaaaaaaaaaaaaaaaaaaaaaaaaaaaaaaaaaaaaaaaaaaaaaaaaaaaaaaaaaaaaaaaaaaaaaaaaaaaaaaaaaaaaaaaaaaaaaaaaaaaaaaaaaaaaaaaaaaa"

Texts ==
    {"El transporte público es muy lento en horas punta",
     "Carlos",
     "carlos",
     "carlos@ejemplo.com",
     "Los buses nuevos han mejorado bastante el servicio",
     "Ana",
     "ana",
     "ana@ejemplo.com",
     "Siempre hay mucha demora y desorden en los paraderos",
     "Luis",
     "luis",
     "luis@ejemplo.com",
     "Me gusta que ahora las unidades estén más limpias",
     "María",
     "maría",
     "maría@ejemplo.com",
     "El pasaje es caro para la calidad del servicio",
     "Pedro",
     "pedro",
     "pedro@ejemplo.com",
     "Excelente servicio en la nueva línea de metro",
     "Laura",
     "laura",
     "laura@ejemplo.com",
     "Los conductores son muy amables y profesionales",
     "Javier",
     "javier",
     "javier@ejemplo.com",
     "Falta más frecuencia en los horarios nocturnos",
     "Sofía",
     "sofía",
     "sofía@ejemplo.com",
     "La aplicación móvil funciona muy bien",
     "David",
     "david",
     "david@ejemplo.com",
     "Me siento seguro viajando en el transporte público",
     "Elena",
     "elena",
     "elena@ejemplo.com",
     "@ejemplo.com",
     "",
     "   ",
     " The bus arrived ",
     " N/A ",
     "N/A",
     "The bus arrived",
     "This is terrible and late",
     "El bus es lento",
     "Buen servicio",
     "Gracias",
     " Ana ",
     "ana@mail.com",
     "Anónimo",
     "Los conductores manejan de forma irresponsable",
     "El sistema de transporte debería ser más puntual",
     "Buen servicio en algunas rutas, pero malo en otras",
     "El transporte público ha mejorado en los últimos meses",
     "Falta seguridad en los paraderos durante la noche",
     "Los horarios no se respetan y eso genera molestias",
     "El servicio es aceptable, aunque puede mejorar",
     "Muy mala experiencia usando el transporte público",
     "El viaje fue cómodo y rápido",
     "La atención al usuario es deficiente",
     "Ejemplo",
     "el transporte público es muy lento en horas punta",
     "public transport is very slow at peak hours",
     "los buses nuevos han mejorado bastante el servicio",
     "the new buses have improved the service a lot",
     "siempre hay mucha demora y desorden en los paraderos",
     "there is always a lot of delay and disorder at the stops",
     "me gusta que ahora las unidades estén más limpias",
     "i like that the units are cleaner now",
     "el pasaje es caro para la calidad del servicio",
     "the fare is expensive for the quality of the service",
     "los conductores manejan de forma irresponsable",
     "el sistema de transporte debería ser más puntual",
     "buen servicio en algunas rutas pero malo en otras",
     "el transporte público ha mejorado en los últimos meses",
     "falta seguridad en los paraderos durante la noche",
     "los horarios no se respetan y eso genera molestias",
     "el servicio es aceptable aunque puede mejorar",
     "muy mala experiencia usando el transporte público",
     "el viaje fue cómodo y rápido",
     "la atención al usuario es deficiente",
     "na",
     "buen servicio",
     "good service",
     "Public transport is very slow at peak hours",
     "The new buses have improved the service a lot",
     "There is always a lot of delay and disorder at the stops",
     "I like that the units are cleaner now",
     "The fare is expensive for the quality of the service",
     "Good service",
     LongText}

Chars(s) ==
    CASE s = "El transporte público es muy lento en horas punta" -> <<"E", "l", " ", "t", "r", "a", "n", "s", "p", "o", "r", "t", "e", " ", "p", "ú", "b", "l", "i", "c", "o", " ", "e", "s", " ", "m", "u", "y", " ", "l", "e", "n", "t", "o", " ", "e", "n", " ", "h", "o", "r", "a", "s", " ", "p", "u", "n", "t", "a">>
      [] s = "Public transport is very slow at peak hours" -> <<"P", "u", "b", "l", "i", "c", " ", "t", "r", "a", "n", "s", "p", "o", "r", "t", " ", "i", "s", " ", "v", "e", "r", "y", " ", "s", "l", "o", "w", " ", "a", "t", " ", "p", "e", "a", "k", " ", "h", "o", "u", "r", "s">>
      [] s = "The new buses have improved the service a lot" -> <<"T", "h", "e", " ", "n", "e", "w", " ", "b", "u", "s", "e", "s", " ", "h", "a", "v", "e", " ", "i", "m", "p", "r", "o", "v", "e", "d", " ", "t", "h", "e", " ", "s", "e", "r", "v", "i", "c", "e", " ", "a", " ", "l", "o", "t">>
      [] s = "There is always a lot of delay and disorder at the stops" -> <<"T", "h", "e", "r", "e", " ", "i", "s", " ", "a", "l", "w", "a", "y", "s", " ", "a", " ", "l", "o", "t", " ", "o", "f", " ", "d", "e", "l", "a", "y", " ", "a", "n", "d", " ", "d", "i", "s", "o", "r", "d", "e", "r", " ", "a", "t", " ", "t", "h", "e", " ", "s", "t", "o", "p", "s">>
      [] s = "I like that the units are cleaner now" -> <<"I", " ", "l", "i", "k", "e", " ", "t", "h", "a", "t", " ", "t", "h", "e", " ", "u", "n", "i", "t", "s", " ", "a", "r", "e", " ", "c", "l", "e", "a", "n", "e", "r", " ", "n", "o", "w">>
      [] s = "The fare is expensive for the quality of the service" -> <<"T", "h", "e", " ", "f", "a", "r", "e", " ", "i", "s", " ", "e", "x", "p", "e", "n", "s", "i", "v", "e", " ", "f", "o", "r", " ", "t", "h", "e", " ", "q", "u", "a", "l", "i", "t", "y", " ", "o", "f", " ", "t", "h", "e", " ", "s", "e", "r", "v", "i", "c", "e">>
      [] s = "Good service" -> <<"G", "o", "o", "d", " ", "s", "e", "r", "v", "i", "c", "e">>
      [] s = "Carlos" -> <<"C", "a", "r", "l", "o", "s">>
      [] s = "carlos" -> <<"c", "a", "r", "l", "o", "s">>
      [] s = "carlos@ejemplo.com" -> <<"c", "a", "r", "l", "o", "s", "@", "e", "j", "e", "m", "p", "l", "o", ".", "c", "o", "m">>
      [] s = "Los buses nuevos han mejorado bastante el servicio" -> <<"L", "o", "s", " ", "b", "u", "s", "e", "s", " ", "n", "u", "e", "v", "o", "s", " ", "h", "a", "n", " ", "m", "e", "j", "o", "r", "a", "d", "o", " ", "b", "a", "s", "t", "a", "n", "t", "e", " ", "e", "l", " ", "s", "e", "r", "v", "i", "c", "i", "o">>
      [] s = "Ana" -> <<"A", "n", "a">>
      [] s = "ana" -> <<"a", "n", "a">>
      [] s = "ana@ejemplo.com" -> <<"a", "n", "a", "@", "e", "j", "e", "m", "p", "l", "o", ".", "c", "o", "m">>
      [] s = "Siempre hay mucha demora y desorden en los paraderos" -> <<"S", "i", "e", "m", "p", "r", "e", " ", "h", "a", "y", " ", "m", "u", "c", "h", "a", " ", "d", "e", "m", "o", "r", "a", " ", "y", " ", "d", "e", "s", "o", "r", "d", "e", "n", " ", "e", "n", " ", "l", "o", "s", " ", "p", "a", "r", "a", "d", "e", "r", "o", "s">>
      [] s = "Luis" -> <<"L", "u", "i", "s">>
      [] s = "luis" -> <<"l", "u", "i", "s">>
      [] s = "luis@ejemplo.com" -> <<"l", "u", "i", "s", "@", "e", "j", "e", "m", "p", "l", "o", ".", "c", "o", "m">>
      [] s = "Me gusta que ahora las unidades estén más limpias" -> <<"M", "e", " ", "g", "u", "s", "t", "a", " ", "q", "u", "e", " ", "a", "h", "o", "r", "a", " ", "l", "a", "s", " ", "u", "n", "i", "d", "a", "d", "e", "s", " ", "e", "s", "t", "é", "n", " ", "m", "á", "s", " ", "l", "i", "m", "p", "i", "a", "s">>
      [] s = "María" -> <<"M", "a", "r", "í", "a">>
      [] s = "maría" -> <<"m", "a", "r", "í", "a">>
      [] s = "maría@ejemplo.com" -> <<"m", "a", "r", "í", "a", "@", "e", "j", "e", "m", "p", "l", "o", ".", "c", "o", "m">>
      [] s = "El pasaje es caro para la calidad del servicio" -> <<"E", "l", " ", "p", "a", "s", "a", "j", "e", " ", "e", "s", " ", "c", "a", "r", "o", " ", "p", "a", "r", "a", " ", "l", "a", " ", "c", "a", "l", "i", "d", "a", "d", " ", "d", "e", "l", " ", "s", "e", "r", "v", "i", "c", "i", "o">>
      [] s = "Pedro" -> <<"P", "e", "d", "r", "o">>
      [] s = "pedro" -> <<"p", "e", "d", "r", "o">>
      [] s = "pedro@ejemplo.com" -> <<"p", "e", "d", "r", "o", "@", "e", "j", "e", "m", "p", "l", "o", ".", "c", "o", "m">>
      [] s = "Excelente servicio en la nueva línea de metro" -> <<"E", "x", "c", "e", "l", "e", "n", "t", "e", " ", "s", "e", "r", "v", "i", "c", "i", "o", " ", "e", "n", " ", "l", "a", " ", "n", "u", "e", "v", "a", " ", "l", "í", "n", "e", "a", " ", "d", "e", " ", "m", "e", "t", "r", "o">>
      [] s = "Laura" -> <<"L", "a", "u", "r", "a">>
      [] s = "laura" -> <<"l", "a", "u", "r", "a">>
      [] s = "laura@ejemplo.com" -> <<"l", "a", "u", "r", "a", "@", "e", "j", "e", "m", "p", "l", "o", ".", "c", "o", "m">>
      [] s = "Los conductores son muy amables y profesionales" -> <<"L", "o", "s", " ", "c", "o", "n", "d", "u", "c", "t", "o", "r", "e", "s", " ", "s", "o", "n", " ", "m", "u", "y", " ", "a", "m", "a", "b", "l", "e", "s", " ", "y", " ", "p", "r", "o", "f", "e", "s", "i", "o", "n", "a", "l", "e", "s">>
      [] s = "Javier" -> <<"J", "a", "v", "i", "e", "r">>
      [] s = "javier" -> <<"j", "a", "v", "i", "e", "r">>
      [] s = "javier@ejemplo.com" -> <<"j", "a", "v", "i", "e", "r", "@", "e", "j", "e", "m", "p", "l", "o", ".", "c", "o", "m">>
      [] s = "Falta más frecuencia en los horarios nocturnos" -> <<"F", "a", "l", "t", "a", " ", "m", "á", "s", " ", "f", "r", "e", "c", "u", "e", "n", "c", "i", "a", " ", "e", "n", " ", "l", "o", "s", " ", "h", "o", "r", "a", "r", "i", "o", "s", " ", "n", "o", "c", "t", "u", "r", "n", "o", "s">>
      [] s = "Sofía" -> <<"S", "o", "f", "í", "a">>
      [] s = "sofía" -> <<"s", "o", "f", "í", "a">>
      [] s = "sofía@ejemplo.com" -> <<"s", "o", "f", "í", "a", "@", "e", "j", "e", "m", "p", "l", "o", ".", "c", "o", "m">>
      [] s = "La aplicación móvil funciona muy bien" -> <<"L", "a", " ", "a", "p", "l", "i", "c", "a", "c", "i", "ó", "n", " ", "m", "ó", "v", "i", "l", " ", "f", "u", "n", "c", "i", "o", "n", "a", " ", "m", "u", "y", " ", "b", "i", "e", "n">>
      [] s = "David" -> <<"D", "a", "v", "i", "d">>
      [] s = "david" -> <<"d", "a", "v", "i", "d">>
      [] s = "david@ejemplo.com" -> <<"d", "a", "v", "i", "d", "@", "e", "j", "e", "m", "p", "l", "o", ".", "c", "o", "m">>
      [] s = "Me siento seguro viajando en el transporte público" -> <<"M", "e", " ", "s", "i", "e", "n", "t", "o", " ", "s", "e", "g", "u", "r", "o", " ", "v", "i", "a", "j", "a", "n", "d", "o", " ", "e", "n", " ", "e", "l", " ", "t", "r", "a", "n", "s", "p", "o", "r", "t", "e", " ", "p", "ú", "b", "l", "i", "c", "o">>
      [] s = "Elena" -> <<"E", "l", "e", "n", "a">>
      [] s = "elena" -> <<"e", "l", "e", "n", "a">>
      [] s = "elena@ejemplo.com" -> <<"e", "l", "e", "n", "a", "@", "e", "j", "e", "m", "p", "l", "o", ".", "c", "o", "m">>
      [] s = "@ejemplo.com" -> <<"@", "e", "j", "e", "m", "p", "l", "o", ".", "c", "o", "m">>
      [] s = "" -> <<>>
      [] s = "   " -> <<" ", " ", " ">>
      [] s = " The bus arrived " -> <<" ", "T", "h", "e", " ", "b", "u", "s", " ", "a", "r", "r", "i", "v", "e", "d", " ">>
      [] s = " N/A " -> <<" ", "N", "/", "A", " ">>
      [] s = "N/A" -> <<"N", "/", "A">>
      [] s = "The bus arrived" -> <<"T", "h", "e", " ", "b", "u", "s", " ", "a", "r", "r", "i", "v", "e", "d">>
      [] s = "This is terrible and late" -> <<"T", "h", "i", "s", " ", "i", "s", " ", "t", "e", "r", "r", "i", "b", "l", "e", " ", "a", "n", "d", " ", "l", "a", "t", "e">>
      [] s = "El bus es lento" -> <<"E", "l", " ", "b", "u", "s", " ", "e", "s", " ", "l", "e", "n", "t", "o">>
      [] s = "Buen servicio" -> <<"B", "u", "e", "n", " ", "s", "e", "r", "v", "i", "c", "i", "o">>
      [] s = "Gracias" -> <<"G", "r", "a", "c", "i", "a", "s">>
      [] s = " Ana " -> <<" ", "A", "n", "a", " ">>
      [] s = "ana@mail.com" -> <<"a", "n", "a", "@", "m", "a", "i", "l", ".", "c", "o", "m">>
      [] s = "Anónimo" -> <<"A", "n", "ó", "n", "i", "m", "o">>
      [] s = "Los conductores manejan de forma irresponsable" -> <<"L", "o", "s", " ", "c", "o", "n", "d", "u", "c", "t", "o", "r", "e", "s", " ", "m", "a", "n", "e", "j", "a", "n", " ", "d", "e", " ", "f", "o", "r", "m", "a", " ", "i", "r", "r", "e", "s", "p", "o", "n", "s", "a", "b", "l", "e">>
      [] s = "El sistema de transporte debería ser más puntual" -> <<"E", "l", " ", "s", "i", "s", "t", "e", "m", "a", " ", "d", "e", " ", "t", "r", "a", "n", "s", "p", "o", "r", "t", "e", " ", "d", "e", "b", "e", "r", "í", "a", " ", "s", "e", "r", " ", "m", "á", "s", " ", "p", "u", "n", "t", "u", "a", "l">>
      [] s = "Buen servicio en algunas rutas, pero malo en otras" -> <<"B", "u", "e", "n", " ", "s", "e", "r", "v", "i", "c", "i", "o", " ", "e", "n", " ", "a", "l", "g", "u", "n", "a", "s", " ", "r", "u", "t", "a", "s", ",", " ", "p", "e", "r", "o", " ", "m", "a", "l", "o", " ", "e", "n", " ", "o", "t", "r", "a", "s">>
      [] s = "El transporte público ha mejorado en los últimos meses" -> <<"E", "l", " ", "t", "r", "a", "n", "s", "p", "o", "r", "t", "e", " ", "p", "ú", "b", "l", "i", "c", "o", " ", "h", "a", " ", "m", "e", "j", "o", "r", "a", "d", "o", " ", "e", "n", " ", "l", "o", "s", " ", "ú", "l", "t", "i", "m", "o", "s", " ", "m", "e", "s", "e", "s">>
      [] s = "Falta seguridad en los paraderos durante la noche" -> <<"F", "a", "l", "t", "a", " ", "s", "e", "g", "u", "r", "i", "d", "a", "d", " ", "e", "n", " ", "l", "o", "s", " ", "p", "a", "r", "a", "d", "e", "r", "o", "s", " ", "d", "u", "r", "a", "n", "t", "e", " ", "l", "a", " ", "n", "o", "c", "h", "e">>
      [] s = "Los horarios no se respetan y eso genera molestias" -> <<"L", "o", "s", " ", "h", "o", "r", "a", "r", "i", "o", "s", " ", "n", "o", " ", "s", "e", " ", "r", "e", "s", "p", "e", "t", "a", "n", " ", "y", " ", "e", "s", "o", " ", "g", "e", "n", "e", "r", "a", " ", "m", "o", "l", "e", "s", "t", "i", "a", "s">>
      [] s = "El servicio es aceptable, aunque puede mejorar" -> <<"E", "l", " ", "s", "e", "r", "v", "i", "c", "i", "o", " ", "e", "s", " ", "a", "c", "e", "p", "t", "a", "b", "l", "e", ",", " ", "a", "u", "n", "q", "u", "e", " ", "p", "u", "e", "d", "e", " ", "m", "e", "j", "o", "r", "a", "r">>
      [] s = "Muy mala experiencia usando el transporte público" -> <<"M", "u", "y", " ", "m", "a", "l", "a", " ", "e", "x", "p", "e", "r", "i", "e", "n", "c", "i", "a", " ", "u", "s", "a", "n", "d", "o", " ", "e", "l", " ", "t", "r", "a", "n", "s", "p", "o", "r", "t", "e", " ", "p", "ú", "b", "l", "i", "c", "o">>
      [] s = "El viaje fue cómodo y rápido" -> <<"E", "l", " ", "v", "i", "a", "j", "e", " ", "f", "u", "e", " ", "c", "ó", "m", "o", "d", "o", " ", "y", " ", "r", "á", "p", "i", "d", "o">>
      [] s = "La atención al usuario es deficiente" -> <<"L", "a", " ", "a", "t", "e", "n", "c", "i", "ó", "n", " ", "a", "l", " ", "u", "s", "u", "a", "r", "i", "o", " ", "e", "s", " ", "d", "e", "f", "i", "c", "i", "e", "n", "t", "e">>
      [] s = "Ejemplo" -> <<"E", "j", "e", "m", "p", "l", "o">>
      [] s = "el transporte público es muy lento en horas punta" -> <<"e", "l", " ", "t", "r", "a", "n", "s", "p", "o", "r", "t", "e", " ", "p", "ú", "b", "l", "i", "c", "o", " ", "e", "s", " ", "m", "u", "y", " ", "l", "e", "n", "t", "o", " ", "e", "n", " ", "h", "o", "r", "a", "s", " ", "p", "u", "n", "t", "a">>
      [] s = "public transport is very slow at peak hours" -> <<"p", "u", "b", "l", "i", "c", " ", "t", "r", "a", "n", "s", "p", "o", "r", "t", " ", "i", "s", " ", "v", "e", "r", "y", " ", "s", "l", "o", "w", " ", "a", "t", " ", "p", "e", "a", "k", " ", "h", "o", "u", "r", "s">>
      [] s = "los buses nuevos han mejorado bastante el servicio" -> <<"l", "o", "s", " ", "b", "u", "s", "e", "s", " ", "n", "u", "e", "v", "o", "s", " ", "h", "a", "n", " ", "m", "e", "j", "o", "r", "a", "d", "o", " ", "b", "a", "s", "t", "a", "n", "t", "e", " ", "e", "l", " ", "s", "e", "r", "v", "i", "c", "i", "o">>
      [] s = "the new buses have improved the service a lot" -> <<"t", "h", "e", " ", "n", "e", "w", " ", "b", "u", "s", "e", "s", " ", "h", "a", "v", "e", " ", "i", "m", "p", "r", "o", "v", "e", "d", " ", "t", "h", "e", " ", "s", "e", "r", "v", "i", "c", "e", " ", "a", " ", "l", "o", "t">>
      [] s = "siempre hay mucha demora y desorden en los paraderos" -> <<"s", "i", "e", "m", "p", "r", "e", " ", "h", "a", "y", " ", "m", "u", "c", "h", "a", " ", "d", "e", "m", "o", "r", "a", " ", "y", " ", "d", "e", "s", "o", "r", "d", "e", "n", " ", "e", "n", " ", "l", "o", "s", " ", "p", "a", "r", "a", "d", "e", "r", "o", "s">>
      [] s = "there is always a lot of delay and disorder at the stops" -> <<"t", "h", "e", "r", "e", " ", "i", "s", " ", "a", "l", "w", "a", "y", "s", " ", "a", " ", "l", "o", "t", " ", "o", "f", " ", "d", "e", "l", "a", "y", " ", "a", "n", "d", " ", "d", "i", "s", "o", "r", "d", "e", "r", " ", "a", "t", " ", "t", "h", "e", " ", "s", "t", "o", "p", "s">>
      [] s = "me gusta que ahora las unidades estén más limpias" -> <<"m", "e", " ", "g", "u", "s", "t", "a", " ", "q", "u", "e", " ", "a", "h", "o", "r", "a", " ", "l", "a", "s", " ", "u", "n", "i", "d", "a", "d", "e", "s", " ", "e", "s", "t", "é", "n", " ", "m", "á", "s", " ", "l", "i", "m", "p", "i", "a", "s">>
      [] s = "i like that the units are cleaner now" -> <<"i", " ", "l", "i", "k", "e", " ", "t", "h", "a", "t", " ", "t", "h", "e", " ", "u", "n", "i", "t", "s", " ", "a", "r", "e", " ", "c", "l", "e", "a", "n", "e", "r", " ", "n", "o", "w">>
      [] s = "el pasaje es caro para la calidad del servicio" -> <<"e", "l", " ", "p", "a", "s", "a", "j", "e", " ", "e", "s", " ", "c", "a", "r", "o", " ", "p", "a", "r", "a", " ", "l", "a", " ", "c", "a", "l", "i", "d", "a", "d", " ", "d", "e", "l", " ", "s", "e", "r", "v", "i", "c", "i", "o">>
      [] s = "the fare is expensive for the quality of the service" -> <<"t", "h", "e", " ", "f", "a", "r", "e", " ", "i", "s", " ", "e", "x", "p", "e", "n", "s", "i", "v", "e", " ", "f", "o", "r", " ", "t", "h", "e", " ", "q", "u", "a", "l", "i", "t", "y", " ", "o", "f", " ", "t", "h", "e", " ", "s", "e", "r", "v", "i", "c", "e">>
      [] s = "los conductores manejan de forma irresponsable" -> <<"l", "o", "s", " ", "c", "o", "n", "d", "u", "c", "t", "o", "r", "e", "s", " ", "m", "a", "n", "e", "j", "a", "n", " ", "d", "e", " ", "f", "o", "r", "m", "a", " ", "i", "r", "r", "e", "s", "p", "o", "n", "s", "a", "b", "l", "e">>
      [] s = "el sistema de transporte debería ser más puntual" -> <<"e", "l", " ", "s", "i", "s", "t", "e", "m", "a", " ", "d", "e", " ", "t", "r", "a", "n", "s", "p", "o", "r", "t", "e", " ", "d", "e", "b", "e", "r", "í", "a", " ", "s", "e", "r", " ", "m", "á", "s", " ", "p", "u", "n", "t", "u", "a", "l">>
      [] s = "buen servicio en algunas rutas pero malo en otras" -> <<"b", "u", "e", "n", " ", "s", "e", "r", "v", "i", "c", "i", "o", " ", "e", "n", " ", "a", "l", "g", "u", "n", "a", "s", " ", "r", "u", "t", "a", "s", " ", "p", "e", "r", "o", " ", "m", "a", "l", "o", " ", "e", "n", " ", "o", "t", "r", "a", "s">>
      [] s = "el transporte público ha mejorado en los últimos meses" -> <<"e", "l", " ", "t", "r", "a", "n", "s", "p", "o", "r", "t", "e", " ", "p", "ú", "b", "l", "i", "c", "o", " ", "h", "a", " ", "m", "e", "j", "o", "r", "a", "d", "o", " ", "e", "n", " ", "l", "o", "s", " ", "ú", "l", "t", "i", "m", "o", "s", " ", "m", "e", "s", "e", "s">>
      [] s = "falta seguridad en los paraderos durante la noche" -> <<"f", "a", "l", "t", "a", " ", "s", "e", "g", "u", "r", "i", "d", "a", "d", " ", "e", "n", " ", "l", "o", "s", " ", "p", "a", "r", "a", "d", "e", "r", "o", "s", " ", "d", "u", "r", "a", "n", "t", "e", " ", "l", "a", " ", "n", "o", "c", "h", "e">>
      [] s = "los horarios no se respetan y eso genera molestias" -> <<"l", "o", "s", " ", "h", "o", "r", "a", "r", "i", "o", "s", " ", "n", "o", " ", "s", "e", " ", "r", "e", "s", "p", "e", "t", "a", "n", " ", "y", " ", "e", "s", "o", " ", "g", "e", "n", "e", "r", "a", " ", "m", "o", "l", "e", "s", "t", "i", "a", "s">>
      [] s = "el servicio es aceptable aunque puede mejorar" -> <<"e", "l", " ", "s", "e", "r", "v", "i", "c", "i", "o", " ", "e", "s", " ", "a", "c", "e", "p", "t", "a", "b", "l", "e", " ", "a", "u", "n", "q", "u", "e", " ", "p", "u", "e", "d", "e", " ", "m", "e", "j", "o", "r", "a", "r">>
      [] s = "muy mala experiencia usando el transporte público" -> <<"m", "u", "y", " ", "m", "a", "l", "a", " ", "e", "x", "p", "e", "r", "i", "e", "n", "c", "i", "a", " ", "u", "s", "a", "n", "d", "o", " ", "e", "l", " ", "t", "r", "a", "n", "s", "p", "o", "r", "t", "e", " ", "p", "ú", "b", "l", "i", "c", "o">>
      [] s = "el viaje fue cómodo y rápido" -> <<"e", "l", " ", "v", "i", "a", "j", "e", " ", "f", "u", "e", " ", "c", "ó", "m", "o", "d", "o", " ", "y", " ", "r", "á", "p", "i", "d", "o">>
      [] s = "la atención al usuario es deficiente" -> <<"l", "a", " ", "a", "t", "e", "n", "c", "i", "ó", "n", " ", "a", "l", " ", "u", "s", "u", "a", "r", "i", "o", " ", "e", "s", " ", "d", "e", "f", "i", "c", "i", "e", "n", "t", "e">>
      [] s = "na" -> <<"n", "a">>
      [] s = "buen servicio" -> <<"b", "u", "e", "n", " ", "s", "e", "r", "v", "i", "c", "i", "o">>
      [] s = "good service" -> <<"g", "o", "o", "d", " ", "s", "e", "r", "v", "i", "c", "e">>
      [] s = LongText -> [i \in 1..1001 |-> "a"]

LowerChar(c) ==
    CASE c = "A" -> "a"
      [] c = "B" -> "b"
      [] c = "C" -> "c"
      [] c = "D" -> "d"
      [] c = "E" -> "e"
      [] c = "F" -> "f"
      [] c = "G" -> "g"
      [] c = "I" -> "i"
      [] c = "J" -> "j"
      [] c = "L" -> "l"
      [] c = "M" -> "m"
      [] c = "N" -> "n"
      [] c = "P" -> "p"
      [] c = "S" -> "s"
      [] c = "T" -> "t"
      [] OTHER -> c
Str(cs) == CHOOSE s \in Texts : Chars(s) = cs

IsSpace(c) == c = " "

RECURSIVE lstrip(_)
lstrip(cs) == IF cs # <<>> /\ IsSpace(Head(cs)) THEN lstrip(Tail(cs)) ELSE cs

RECURSIVE rstrip(_)
rstrip(cs) ==
    IF cs # <<>> /\ IsSpace(cs[Len(cs)]) THEN rstrip(SubSeq(cs, 1, Len(cs) - 1)) ELSE cs

\* str.strip()
strip(s) == Str(rstrip(lstrip(Chars(s))))

\* str.lower(), on characters
lower(cs) == [i \in 1..Len(cs) |-> LowerChar(cs[i])]

\* palabra in texto: a substring test
Contains(cs, p) == \E i \in 1..(Len(cs) - Len(p) + 1) : SubSeq(cs, i, i + Len(p) - 1) = p

\* len(texto.split()): the number of whitespace-delimited tokens
split_len(cs) ==
    Cardinality({i \in 1..Len(cs) : ~IsSpace(cs[i]) /\ (i = 1 \/ IsSpace(cs[i - 1]))})

palabras_es ==
    {<<"e", "l">>, <<"l", "a">>, <<"l", "o", "s">>, <<"l", "a", "s">>, <<"e", "s">>,
     <<"e", "n">>, <<"y">>, <<"d", "e">>, <<"q", "u", "e">>, <<"s", "e">>}

\* ------------------------------------------------- external capabilities

\* What the translation service answers when it answers (deep_translator).
GoogleTranslate(texto) ==
    CASE texto = "El transporte público es muy lento en horas punta"
            -> "Public transport is very slow at peak hours"
      [] texto = "Los buses nuevos han mejorado bastante el servicio"
            -> "The new buses have improved the service a lot"
      [] texto = "Siempre hay mucha demora y desorden en los paraderos"
            -> "There is always a lot of delay and disorder at the stops"
      [] texto = "Me gusta que ahora las unidades estén más limpias"
            -> "I like that the units are cleaner now"
      [] texto = "El pasaje es caro para la calidad del servicio"
            -> "The fare is expensive for the quality of the service"
      [] texto = "Excelente servicio en la nueva línea de metro"
            -> "Excellent service on the new metro line"
      [] texto = "Los conductores son muy amables y profesionales"
            -> "The drivers are very kind and professional"
      [] texto = "Falta más frecuencia en los horarios nocturnos"
            -> "More frequency is needed in the night schedules"
      [] texto = "La aplicación móvil funciona muy bien"
            -> "The mobile application works very well"
      [] texto = "Me siento seguro viajando en el transporte público"
            -> "I feel safe traveling on public transport"
      [] texto = "Buen servicio" -> "Good service"
      [] OTHER -> texto

Neutral == [neg |-> 0, neu |-> 1000, pos |-> 0, compound |-> 0]

\* The lexicon scorer, a fixed function of the text it is given. The scores
\* stand for VADER's; the texts are chosen so that both thresholds and a
\* value just inside them occur. VADER looks words up in lowercase, so a
\* text of these in lowercase has the score of the text itself; a text of no
\* words scores zero throughout.
polarity_scores(texto) ==
    CASE texto = "Public transport is very slow at peak hours"
            -> [neg |-> 90, neu |-> 910, pos |-> 0, compound |-> -500]
      [] texto = "The new buses have improved the service a lot"
            -> [neg |-> 0, neu |-> 707, pos |-> 293, compound |-> 4767]
      [] texto = "There is always a lot of delay and disorder at the stops"
            -> [neg |-> 296, neu |-> 704, pos |-> 0, compound |-> -5994]
      [] texto = "I like that the units are cleaner now"
            -> [neg |-> 0, neu |-> 517, pos |-> 483, compound |-> 5423]
      [] texto = "The fare is expensive for the quality of the service"
            -> [neg |-> 0, neu |-> 1000, pos |-> 0, compound |-> 0]
      [] texto = "Excellent service on the new metro line"
            -> [neg |-> 0, neu |-> 619, pos |-> 381, compound |-> 5719]
      [] texto = "The drivers are very kind and professional"
            -> [neg |-> 0, neu |-> 641, pos |-> 359, compound |-> 5709]
      [] texto = "More frequency is needed in the night schedules"
            -> [neg |-> 0, neu |-> 1000, pos |-> 0, compound |-> 0]
      [] texto = "The mobile application works very well"
            -> [neg |-> 0, neu |-> 676, pos |-> 324, compound |-> 3384]
      [] texto = "I feel safe traveling on public transport"
            -> [neg |-> 0, neu |-> 633, pos |-> 367, compound |-> 4404]
      [] texto = "Good service"
            -> [neg |-> 0, neu |-> 910, pos |-> 90, compound |-> 500]
      [] texto = "Buen servicio"
            -> [neg |-> 0, neu |-> 915, pos |-> 85, compound |-> 499]
      [] texto = "public transport is very slow at peak hours"
            -> [neg |-> 90, neu |-> 910, pos |-> 0, compound |-> -500]
      [] texto = "the new buses have improved the service a lot"
            -> [neg |-> 0, neu |-> 707, pos |-> 293, compound |-> 4767]
      [] texto = "there is always a lot of delay and disorder at the stops"
            -> [neg |-> 296, neu |-> 704, pos |-> 0, compound |-> -5994]
      [] texto = "i like that the units are cleaner now"
            -> [neg |-> 0, neu |-> 517, pos |-> 483, compound |-> 5423]
      [] texto = "the fare is expensive for the quality of the service"
            -> [neg |-> 0, neu |-> 1000, pos |-> 0, compound |-> 0]
      [] texto = "buen servicio"
            -> [neg |-> 0, neu |-> 915, pos |-> 85, compound |-> 499]
      [] texto = "good service"
            -> [neg |-> 0, neu |-> 910, pos |-> 90, compound |-> 500]
      [] texto = ""
            -> [neg |-> 0, neu |-> 0, pos |-> 0, compound |-> 0]
      [] OTHER -> Neutral

\* How one call of the translation service ends: it answers, it raises, or
\* it answers None (deep_translator does for some inputs).
NetOutcomes == {"ok", "error", "none"}

\* ---------------------------------------------------------------- pipeline

tiene_espanol(texto) == \E palabra \in palabras_es : Contains(lower(Chars(texto)), palabra)

\* Whether traducir_es_en calls the translation service.
traduce(texto) == texto # "" /\ tiene_espanol(texto) /\ split_len(Chars(texto)) > 1

\* A variant: no fallback to the text, a failed call answers nothing.
traducir_sin_fallback(texto, net) ==
    IF texto = "" THEN texto
    ELSE IF traduce(texto)
         THEN IF net = "ok" THEN GoogleTranslate(texto) ELSE None
         ELSE texto

traducir_es_en(texto, net) ==
    IF texto = "" THEN texto
    ELSE IF traduce(texto)
         THEN CASE net = "ok" -> GoogleTranslate(texto)
                [] net = "none" -> None
                [] OTHER -> texto
         ELSE texto

\* Whether traducir_es_en of src/smartcities_analysis.py calls the service.
analysis_traduce(texto) == texto # "" /\ tiene_espanol(texto)

\* traducir_es_en of src/smartcities_analysis.py
analysis_traducir_es_en(texto, net) ==
    IF texto = "" THEN texto
    ELSE IF analysis_traduce(texto)
         THEN CASE net = "ok" -> GoogleTranslate(texto)
                [] net = "none" -> None
                [] OTHER -> texto
         ELSE texto

\* A variant: the thresholds themselves taken as neutral.
clasificar_estricto(compound) ==
    IF compound > PosThreshold THEN "Positivo"
    ELSE IF compound < NegThreshold THEN "Negativo"
    ELSE "Neutro"

clasificar_sentimiento(compound) ==
    IF compound >= PosThreshold THEN "Positivo"
    ELSE IF compound <= NegThreshold THEN "Negativo"
    ELSE "Neutro"

\* clasificar_sentimiento of src/smartcities_analysis.py
analysis_clasificar_sentimiento(compound) ==
    IF compound >= PosThreshold THEN "Positivo"
    ELSE IF compound <= NegThreshold THEN "Negativo"
    ELSE "Neutro"

Fallback(original, traducido) ==
    [comentario_original |-> original, comentario_traducido |-> traducido,
     neg |-> 0, neu |-> 1000, pos |-> 0, compound |-> 0, sentimiento |-> "Neutro",
     raised |-> TRUE]

\* raised records that the except branch was taken (the scorer raised).
analizar_sentimiento(comentario, net) ==
    IF comentario = "" THEN [Fallback("", "") EXCEPT !.raised = FALSE]
    ELSE LET comentario_trad == traducir_es_en(comentario, net) IN
         IF comentario_trad = None THEN Fallback(comentario, comentario)
         ELSE LET scores == polarity_scores(comentario_trad) IN
              [comentario_original |-> comentario,
               comentario_traducido |-> comentario_trad,
               neg |-> scores.neg, neu |-> scores.neu, pos |-> scores.pos,
               compound |-> scores.compound,
               sentimiento |-> clasificar_sentimiento(scores.compound),
               raised |-> FALSE]

\* ------------------------------------------------------------------ inputs

\* The readings of the clock, in seconds.
Fechas == {0, 1}

Clients == {"c1"}
Threads == {"t1", "t2"}
Passwords == {"admin123", "wrong"}
DeleteIds == {1, 11}

\* The forms posted to /submit: comentario, nombre, email as typed.
Forms ==
    {[comentario |-> "", nombre |-> "Ana", email |-> ""],
     [comentario |-> "   ", nombre |-> "", email |-> ""],
     [comentario |-> LongText, nombre |-> "Ana", email |-> ""],
     [comentario |-> " N/A ", nombre |-> "", email |-> ""],
     [comentario |-> "Buen servicio", nombre |-> " Ana ", email |-> "ana@mail.com"]}

\* A variant: the fields taken as typed, not stripped.
sin_strip ==
    [s \in {f.comentario : f \in Forms} \cup {f.nombre : f \in Forms}
            \cup {f.email : f \in Forms} |-> s]

\* request.form.get(...).strip() of every field of every form.
stripped ==
    [s \in {f.comentario : f \in Forms} \cup {f.nombre : f \in Forms}
            \cup {f.email : f \in Forms} |-> strip(s)]

longitud == [s \in {stripped[f.comentario] : f \in Forms} |-> Len(Chars(s))]

\* The comments that pass submit_comment's validation.
Comentarios ==
    {stripped[f.comentario] : f \in Forms} \ {s \in DOMAIN longitud : s = "" \/ longitud[s] > MaxLen}

\* ------------------------------------------------------------- CSV, tables


Columnas ==
    <<"id", "fecha", "nombre", "email", "comentario",
      "sentimiento", "compound", "positivo", "negativo", "neutro">>

\* The strings pandas.read_csv reads as a missing value.
NaValues ==
    {"", "#N/A", "#N/A N/A", "#NA", "-1.#IND", "-1.#QNAN", "-NaN", "-nan", "1.#IND",
     "1.#QNAN", "<NA>", "N/A", "NA", "NULL", "NaN", "None", "n/a", "nan", "null"}

read_cell(v) == IF v \in NaValues THEN NaN ELSE v

\* DataFrame.to_csv writes a missing value as the empty field.
write_cell(v) == IF v = NaN THEN "" ELSE v

read_row(r) ==
    [r EXCEPT !.nombre = read_cell(@), !.email = read_cell(@),
              !.comentario = read_cell(@), !.sentimiento = read_cell(@)]

write_row(r) ==
    [r EXCEPT !.nombre = write_cell(@), !.email = write_cell(@),
              !.comentario = write_cell(@), !.sentimiento = write_cell(@)]

\* The file: absent, of length zero, unparseable, or a header line and rows.
Absent == [kind |-> "absent", columns |-> <<>>, rows |-> <<>>]
ZeroLength == [kind |-> "zero", columns |-> <<>>, rows |-> <<>>]
Corrupt == [kind |-> "corrupt", columns |-> <<>>, rows |-> <<>>]
CsvFile(columns, rows) == [kind |-> "csv", columns |-> columns, rows |-> rows]

exists(f) == f.kind # "absent"

\* os.path.getsize, in lines
getsize(f) ==
    CASE f.kind \in {"absent", "zero"} -> 0
      [] f.kind = "corrupt" -> 1
      [] OTHER -> 1 + Len(f.rows)

DataFrame(columns, rows) == [columns |-> columns, rows |-> rows]

read_csv(f) == DataFrame(f.columns, [i \in 1..Len(f.rows) |-> read_row(f.rows[i])])

cargar_dataset(f) ==
    IF exists(f) /\ getsize(f) > 0
    THEN IF f.kind = "corrupt" THEN DataFrame(<<>>, <<>>) ELSE read_csv(f)
    ELSE DataFrame(Columnas, <<>>)

\* DataFrame.empty
empty(df) == Len(df.rows) = 0 \/ Len(df.columns) = 0

has_column(df, c) == \E i \in 1..Len(df.columns) : df.columns[i] = c

\* How one to_csv call ends: the file is rewritten; open() raises and the
\* file is as it was; or the write raises after open() truncated the file
\* (a file this small reaches the disk in one flush, when it is closed).
IOOutcomes == {"ok", "open_error", "write_error"}

to_csv(f, df, io) ==
    CASE io = "ok" -> CsvFile(df.columns, [i \in 1..Len(df.rows) |-> write_row(df.rows[i])])
      [] io = "open_error" -> f
      [] OTHER -> ZeroLength

Ids(df) == {df.rows[i].id : i \in 1..Len(df.rows)}

\* df['id'].max()
max_id(df) == CHOOSE m \in Ids(df) : \A k \in Ids(df) : k <= m

concat(df, fila) ==
    DataFrame(IF Len(df.columns) = 0 THEN Columnas ELSE df.columns, Append(df.rows, fila))

Min(a, b) == IF a <= b THEN a ELSE b

SelectRows(rows, Keep(_)) ==
    LET F[i \in 0..Len(rows)] ==
            IF i = 0 THEN <<>>
            ELSE IF Keep(rows[i]) THEN Append(F[i - 1], rows[i]) ELSE F[i - 1]
    IN F[Len(rows)]

\* A variant: df.drop(index=id), the row whose index label (from 0) is id.
drop_index(df, id) ==
    DataFrame(df.columns,
              SubSeq(df.rows, 1, Min(id, Len(df.rows)))
                  \o SubSeq(df.rows, id + 2, Len(df.rows)))

\* A variant: the filter inverted, df[df['id'] == id].
keep_id(df, id) == LET Keep(r) == r.id = id IN DataFrame(df.columns, SelectRows(df.rows, Keep))

\* df[df['id'] != id]
drop_id(df, id) == LET Keep(r) == r.id # id IN DataFrame(df.columns, SelectRows(df.rows, Keep))

\* ------------------------------------------------------------ the dataset

ejemplos ==
    << <<"El transporte público es muy lento en horas punta", "Carlos">>,
       <<"Los buses nuevos han mejorado bastante el servicio", "Ana">>,
       <<"Siempre hay mucha demora y desorden en los paraderos", "Luis">>,
       <<"Me gusta que ahora las unidades estén más limpias", "María">>,
       <<"El pasaje es caro para la calidad del servicio", "Pedro">>,
       <<"Excelente servicio en la nueva línea de metro", "Laura">>,
       <<"Los conductores son muy amables y profesionales", "Javier">>,
       <<"Falta más frecuencia en los horarios nocturnos", "Sofía">>,
       <<"La aplicación móvil funciona muy bien", "David">>,
       <<"Me siento seguro viajando en el transporte público", "Elena">> >>

Fila(id, fecha, nombre, email, comentario, resultado) ==
    [id |-> id, fecha |-> fecha, nombre |-> nombre, email |-> email,
     comentario |-> comentario, sentimiento |-> resultado.sentimiento,
     compound |-> resultado.compound, positivo |-> resultado.pos,
     negativo |-> resultado.neg, neutro |-> resultado.neu]

\* The rows inicializar_dataset builds, but for their fecha.
datos_sin_fecha ==
    [net \in NetOutcomes |->
        [i \in 1..Len(ejemplos) |->
            LET comentario == ejemplos[i][1]
                nombre == ejemplos[i][2]
            IN Fila(i, 0, nombre,
                    Str(lower(Chars(nombre)) \o Chars("@ejemplo.com")),
                    comentario, analizar_sentimiento(comentario, net))]]

datos_ejemplo(fecha, net) ==
    [i \in 1..Len(ejemplos) |-> [datos_sin_fecha[net][i] EXCEPT !.fecha = fecha]]

\* A variant: only the absent file initialised.
needs_init_absent(f) == ~exists(f)

\* A variant: the examples written at every start.
needs_init_siempre(f) == TRUE

needs_init(f) == ~exists(f) \/ getsize(f) = 0

inicializar_dataset(f, fecha, net, io) ==
    IF needs_init(f) THEN to_csv(f, DataFrame(Columnas, datos_ejemplo(fecha, net)), io)
    ELSE f

\* analizar_sentimiento on the comments that pass validation.
analisis ==
    [comentario \in Comentarios |->
        [net \in NetOutcomes |-> analizar_sentimiento(comentario, net)]]

traduccion == [comentario \in Comentarios |-> traduce(comentario)]

\* A variant: the + 1 left out, df['id'].max().
nuevo_id_max(df) == IF ~empty(df) /\ has_column(df, "id") THEN max_id(df) ELSE 1

\* A variant: the next id taken from the row count, len(df) + 1.
nuevo_id_len(df) == Len(df.rows) + 1

nuevo_id(df) == IF ~empty(df) /\ has_column(df, "id") THEN max_id(df) + 1 ELSE 1

\* agregar_comentario: what it returns, and the file it leaves.
agregar_comentario(f, comentario, nombre, email, fecha, net, io) ==
    LET resultado == analisis[comentario][net]
        df == cargar_dataset(f)
        id == nuevo_id(df)
        nueva_fila == Fila(id, fecha, IF nombre # "" THEN nombre ELSE "Anónimo",
                           email, comentario, resultado)
    IN [success |-> io = "ok", resultado |-> resultado, id |-> id, fila |-> nueva_fila,
        store |-> to_csv(f, concat(df, nueva_fila), io)]

value_counts(df, label) ==
    Cardinality({i \in 1..Len(df.rows) : df.rows[i].sentimiento = label})

RECURSIVE sum_compound(_)
sum_compound(rows) ==
    IF rows = <<>> THEN 0 ELSE Head(rows).compound + sum_compound(Tail(rows))

\* A float kept exactly, as a fraction: num / den. 0/0 is nan.
Float(num, den) == [num |-> num, den |-> den]

\* df['compound'].mean() if 'compound' in df.columns else 0.0
mean_compound(df) ==
    IF has_column(df, "compound") THEN Float(sum_compound(df.rows), Len(df.rows))
    ELSE Float(0, 1)

NoStats ==
    [total |-> 0, positivos |-> 0, negativos |-> 0, neutros |-> 0,
     promedio_compound |-> Float(0, 1), status |-> "empty"]

\* A variant: the neutral label looked up under another name.
obtener_estadisticas_label(f) ==
    LET df == cargar_dataset(f) IN
    IF empty(df) THEN NoStats
    ELSE [total |-> Len(df.rows),
          positivos |-> value_counts(df, "Positivo"),
          negativos |-> value_counts(df, "Negativo"),
          neutros |-> value_counts(df, "Neutral"),
          promedio_compound |-> mean_compound(df),
          status |-> "ok"]

\* A variant: the empty table not set apart, its mean taken as of any table.
obtener_estadisticas_sin_vacio(f) ==
    LET df == cargar_dataset(f) IN
    [total |-> Len(df.rows),
     positivos |-> value_counts(df, "Positivo"),
     negativos |-> value_counts(df, "Negativo"),
     neutros |-> value_counts(df, "Neutro"),
     promedio_compound |-> Float(sum_compound(df.rows), Len(df.rows)),
     status |-> IF empty(df) THEN "empty" ELSE "ok"]

obtener_estadisticas(f) ==
    LET df == cargar_dataset(f) IN
    IF empty(df) THEN NoStats
    ELSE [total |-> Len(df.rows),
          positivos |-> value_counts(df, "Positivo"),
          negativos |-> value_counts(df, "Negativo"),
          neutros |-> value_counts(df, "Neutro"),
          promedio_compound |-> mean_compound(df),
          status |-> "ok"]

\* df.sort_values('fecha', ascending=False): pandas reverses the column,
\* sorts it ascending and reverses the result; for a table this small the
\* sort is an insertion sort, so rows of equal fecha stay in the order the
\* file has them.
insert_fecha(sorted, r) ==
    LET k == Cardinality({j \in 1..Len(sorted) : sorted[j].fecha >= r.fecha})
    IN SubSeq(sorted, 1, k) \o <<r>> \o SubSeq(sorted, k + 1, Len(sorted))

RECURSIVE sort_into(_, _)
sort_into(sorted, rows) ==
    IF rows = <<>> THEN sorted
    ELSE sort_into(insert_fecha(sorted, Head(rows)), Tail(rows))

sort_values_fecha(rows) == sort_into(<<>>, rows)

head(rows, n) == SubSeq(rows, 1, Min(n, Len(rows)))

\* ------------------------------------------------------------------- state

NoFila == Fila(0, 0, "", "", "", Neutral @@ [sentimiento |-> ""])

NoResp ==
    [op |-> "none", code |-> 0, page |-> "", id |-> 0, found |-> FALSE,
     io |-> "ok", raised |-> FALSE, stats |-> NoStats,
     net |-> "ok", fila |-> NoFila, traducido |-> "", ultimos_comentarios |-> <<>>]

NoReq ==
    [op |-> "none", comentario |-> "", nombre |-> "", email |-> "", net |-> "ok", id |-> 0]

NoRes == [code |-> 0, stats |-> NoStats]

NoRet == [app |-> "", analysis |-> ""]

ThreadsIdle ==
    /\ pc = [t \in Threads |-> "idle"]
    /\ treq = [t \in Threads |-> NoReq]
    /\ tdf = [t \in Threads |-> DataFrame(<<>>, <<>>)]
    /\ tres = [t \in Threads |-> NoRes]

Init ==
    /\ store \in {Absent, ZeroLength, Corrupt}
    /\ store0 = Absent
    /\ session = [c \in Clients |-> FALSE]
    /\ now = 0
    /\ assigned = <<>>
    /\ resp = NoResp
    /\ arg = 0
    /\ ret = NoRet
    /\ ThreadsIdle

\* datetime.now(): the clock has not gone back since it was last read.
Clock(fecha) == fecha \in Fechas /\ now <= fecha /\ fecha <= now + 1 /\ now' = fecha

\* ---------------------------------------------------------------- handlers

\* __main__: the process starts and initialises the dataset.
Main ==
    /\ IF needs_init(store)
       THEN \E fecha \in Fechas, net \in NetOutcomes, io \in IOOutcomes :
                /\ Clock(fecha)
                /\ store' = inicializar_dataset(store, fecha, net, io)
                /\ resp' = [NoResp EXCEPT !.op = "main", !.io = io]
       ELSE /\ store' = inicializar_dataset(store, now, "ok", "ok")
            /\ resp' = [NoResp EXCEPT !.op = "main"]
            /\ now' = now
    /\ UNCHANGED <<store0, session, assigned, pc, treq, tdf, tres, arg, ret>>

Reject ==
    /\ resp' = [NoResp EXCEPT !.op = "submit", !.code = 400, !.page = "error.html"]
    /\ UNCHANGED <<store, now, assigned>>

\* The outcomes of the translation call a comment's analysis makes, if any.
NetFor(comentario) == IF traduccion[comentario] THEN NetOutcomes ELSE {"ok"}

\* POST /submit
submit_comment(form) ==
    LET comentario == stripped[form.comentario]
        nombre == stripped[form.nombre]
        email == stripped[form.email]
    IN /\ IF comentario = "" THEN Reject
          ELSE IF longitud[comentario] > MaxLen THEN Reject
          ELSE \E fecha \in Fechas, net \in NetFor(comentario), io \in IOOutcomes :
               LET r == agregar_comentario(store, comentario, nombre, email, fecha, net, io) IN
                   /\ Len(assigned) < MaxSubmits
                   /\ Clock(fecha)
                   /\ store' = r.store
                   /\ assigned' = IF r.success THEN Append(assigned, r.id) ELSE assigned
                   /\ resp' = [NoResp EXCEPT
                                 !.op = "submit",
                                 !.code = IF r.success THEN 200 ELSE 500,
                                 !.page = IF r.success THEN "result.html" ELSE "error.html",
                                 !.io = io,
                                 !.raised = r.resultado.raised,
                                 !.net = net,
                                 !.fila = IF r.success THEN r.fila ELSE NoFila,
                                 !.traducido = IF r.success
                                               THEN r.resultado.comentario_traducido
                                               ELSE ""]
       /\ UNCHANGED <<store0, session, pc, treq, tdf, tres, arg, ret>>

\* POST /admin/login
admin_login(c, password) ==
    /\ IF password = ADMIN_PASSWORD
       THEN /\ session' = [session EXCEPT ![c] = TRUE]
            /\ resp' = [NoResp EXCEPT !.op = "login", !.code = 302, !.page = "admin_dashboard"]
       ELSE /\ session' = session
            /\ resp' = [NoResp EXCEPT !.op = "login", !.code = 401, !.page = "admin_login.html"]
    /\ UNCHANGED <<store, store0, now, assigned, pc, treq, tdf, tres, arg, ret>>

\* GET /admin/logout
admin_logout(c) ==
    /\ session' = [session EXCEPT ![c] = FALSE]
    /\ resp' = [NoResp EXCEPT !.op = "logout", !.code = 302, !.page = "index"]
    /\ UNCHANGED <<store, store0, now, assigned, pc, treq, tdf, tres, arg, ret>>

\* A variant: the delete carried out whoever asks for it.
delete_sin_sesion(c, id) ==
    LET df == cargar_dataset(store) IN
    /\ IF ~empty(df) /\ has_column(df, "id")
       THEN \E io \in IOOutcomes :
            /\ store' = to_csv(store, drop_id(df, id), io)
            /\ resp' = [NoResp EXCEPT
                          !.op = "delete",
                          !.code = IF io = "ok" THEN 302 ELSE 500,
                          !.page = IF io = "ok" THEN "admin_dashboard" ELSE "error.html",
                          !.id = id, !.found = id \in Ids(df), !.io = io]
       ELSE /\ store' = store
            /\ resp' = [NoResp EXCEPT !.op = "delete", !.code = 302,
                                      !.page = "admin_dashboard", !.id = id]
    /\ UNCHANGED <<store0, session, now, assigned, pc, treq, tdf, tres, arg, ret>>

\* POST /admin/delete/<id>
delete_comment(c, id) ==
    LET df == cargar_dataset(store) IN
    /\ IF ~session[c]
       THEN /\ store' = store
            /\ resp' = [NoResp EXCEPT !.op = "delete", !.code = 302, !.page = "admin_login",
                                      !.id = id, !.found = id \in Ids(df)]
       ELSE IF ~empty(df) /\ has_column(df, "id")
            THEN \E io \in IOOutcomes :
                 /\ store' = to_csv(store, drop_id(df, id), io)
                 /\ resp' = [NoResp EXCEPT
                               !.op = "delete",
                               !.code = IF io = "ok" THEN 302 ELSE 500,
                               !.page = IF io = "ok" THEN "admin_dashboard" ELSE "error.html",
                               !.id = id, !.found = id \in Ids(df), !.io = io]
            ELSE /\ store' = store
                 /\ resp' = [NoResp EXCEPT !.op = "delete", !.code = 302,
                                           !.page = "admin_dashboard", !.id = id]
    /\ UNCHANGED <<store0, session, now, assigned, pc, treq, tdf, tres, arg, ret>>

\* GET /admin
admin_dashboard(c) ==
    LET df == cargar_dataset(store) IN
    /\ resp' = IF ~session[c]
               THEN [NoResp EXCEPT !.op = "dashboard", !.code = 302, !.page = "admin_login"]
               ELSE [NoResp EXCEPT
                       !.op = "dashboard", !.code = 200, !.page = "admin.html",
                       !.ultimos_comentarios =
                           IF empty(df) THEN <<>>
                           ELSE head(sort_values_fecha(df.rows), Ultimos)]
    /\ UNCHANGED <<store, store0, session, now, assigned, pc, treq, tdf, tres, arg, ret>>

\* GET /api/stats
get_stats ==
    /\ resp' = [NoResp EXCEPT !.op = "stats", !.code = 200, !.page = "json",
                              !.stats = obtener_estadisticas(store)]
    /\ UNCHANGED <<store, store0, session, now, assigned, pc, treq, tdf, tres, arg, ret>>

Next ==
    \/ Main
    \/ \E form \in Forms : submit_comment(form)
    \/ \E c \in Clients, password \in Passwords : admin_login(c, password)
    \/ \E c \in Clients : admin_logout(c)
    \/ \E c \in Clients, id \in DeleteIds : delete_comment(c, id)
    \/ \E c \in Clients : admin_dashboard(c)
    \/ get_stats

Spec == Init /\ [][Next]_vars

\* ------------------------------------------- the threaded server (app.run)

\* app.run(threaded=True) gives every request a thread of its own, and no
\* handler takes a lock: a thread may be switched out between any two file
\* operations. Each thread here handles one request. to_csv is its two file
\* operations: open(path, 'w'), which truncates the file, and the flush of
\* the lines when the file is closed. Two open-to-close windows are not let
\* overlap (the bytes two open handles leave depend on the lines' lengths);
\* every behaviour of SpecThreaded is an execution of the server.

Seeded == inicializar_dataset(Absent, 0, "ok", "ok")

Requests ==
    {[NoReq EXCEPT !.op = "submit", !.comentario = stripped[f.comentario],
                   !.nombre = stripped[f.nombre], !.email = stripped[f.email]] :
        f \in {g \in Forms : stripped[g.comentario] \in Comentarios}}
        \cup {[NoReq EXCEPT !.op = "delete", !.id = id] : id \in DeleteIds}
        \cup {[NoReq EXCEPT !.op = "stats"]}

InitThreaded ==
    /\ store \in {Absent, Seeded}
    /\ store0 = store
    /\ session = [c \in Clients |-> TRUE]
    /\ now = 0
    /\ assigned = <<>>
    /\ resp = NoResp
    /\ arg = 0
    /\ ret = NoRet
    /\ ThreadsIdle

\* A request arrives and Flask hands it to a thread.
T_Begin(t, req) ==
    /\ pc[t] = "idle"
    /\ treq' = [treq EXCEPT ![t] = req]
    /\ pc' = [pc EXCEPT ![t] = "load"]
    /\ UNCHANGED <<store, store0, session, now, assigned, resp, tdf, tres, arg, ret>>

\* The handler's cargar_dataset() and what it computes from the table.
T_Load(t) ==
    /\ pc[t] = "load"
    /\ LET df == cargar_dataset(store)
           req == treq[t]
       IN CASE req.op = "submit" ->
                 /\ tdf' = [tdf EXCEPT ![t] =
                        concat(df, Fila(nuevo_id(df), now,
                                        IF req.nombre # "" THEN req.nombre ELSE "Anónimo",
                                        req.email, req.comentario,
                                        analisis[req.comentario][req.net]))]
                 /\ pc' = [pc EXCEPT ![t] = "open"]
                 /\ tres' = tres
            [] req.op = "delete" ->
                 IF ~empty(df) /\ has_column(df, "id")
                 THEN /\ tdf' = [tdf EXCEPT ![t] = drop_id(df, req.id)]
                      /\ pc' = [pc EXCEPT ![t] = "open"]
                      /\ tres' = tres
                 ELSE /\ tdf' = [tdf EXCEPT ![t] = df]
                      /\ pc' = [pc EXCEPT ![t] = "done"]
                      /\ tres' = [tres EXCEPT ![t] = [NoRes EXCEPT !.code = 302]]
            [] OTHER ->
                 /\ tdf' = [tdf EXCEPT ![t] = df]
                 /\ pc' = [pc EXCEPT ![t] = "done"]
                 /\ tres' = [tres EXCEPT ![t] =
                        [code |-> 200, stats |-> obtener_estadisticas(store)]]
    /\ UNCHANGED <<store, store0, session, now, assigned, resp, treq, arg, ret>>

\* to_csv opens the file for writing: it is truncated.
T_Open(t) ==
    /\ pc[t] = "open"
    /\ \A u \in Threads : pc[u] # "close"
    /\ store' = ZeroLength
    /\ pc' = [pc EXCEPT ![t] = "close"]
    /\ UNCHANGED <<store0, session, now, assigned, resp, treq, tdf, tres, arg, ret>>

\* to_csv closes the file: the lines reach it, and the handler answers.
T_Close(t) ==
    /\ pc[t] = "close"
    /\ store' = to_csv(store, tdf[t], "ok")
    /\ pc' = [pc EXCEPT ![t] = "done"]
    /\ tres' = [tres EXCEPT ![t] =
           [NoRes EXCEPT !.code = IF treq[t].op = "submit" THEN 200 ELSE 302]]
    /\ UNCHANGED <<store0, session, now, assigned, resp, treq, tdf, arg, ret>>

NextThreaded ==
    \/ \E t \in Threads, req \in Requests : T_Begin(t, req)
    \/ \E t \in Threads : T_Load(t)
    \/ \E t \in Threads : T_Open(t)
    \/ \E t \in Threads : T_Close(t)

SpecThreaded == InitThreaded /\ [][NextThreaded]_vars

\* ------------------------------- the module src/smartcities_analysis.py

COMENTARIOS_EJEMPLO ==
    <<"El transporte público es muy lento en horas punta",
      "Los buses nuevos han mejorado bastante el servicio",
      "Siempre hay mucha demora y desorden en los paraderos",
      "Me gusta que ahora las unidades estén más limpias",
      "El pasaje es caro para la calidad del servicio",
      "Los conductores manejan de forma irresponsable",
      "El sistema de transporte debería ser más puntual",
      "Buen servicio en algunas rutas, pero malo en otras",
      "El transporte público ha mejorado en los últimos meses",
      "Falta seguridad en los paraderos durante la noche",
      "Los horarios no se respetan y eso genera molestias",
      "El servicio es aceptable, aunque puede mejorar",
      "Muy mala experiencia usando el transporte público",
      "El viaje fue cómodo y rápido",
      "La atención al usuario es deficiente">>

\* The characters the pattern [^a-z0-9áéíóúñü\s] leaves in a text.
Kept ==
    {"a", "b", "c", "d", "e", "f", "g", "h", "i", "j", "k", "l", "m", "n", "o", "p", "q",
     "r", "s", "t", "u", "v", "w", "x", "y", "z", "0", "1", "2", "3", "4", "5", "6", "7",
     "8", "9", "á", "é", "í", "ó", "ú", "ñ", "ü", " "}

IsKept(c) == c \in Kept

\* re.sub(r'\s+', ' ', texto)
RECURSIVE collapse(_)
collapse(cs) ==
    IF Len(cs) < 2 THEN cs
    ELSE IF IsSpace(cs[1]) /\ IsSpace(cs[2]) THEN collapse(Tail(cs))
    ELSE <<Head(cs)>> \o collapse(Tail(cs))

limpiar_texto(texto) ==
    IF texto = "" \/ texto = None THEN ""
    ELSE Str(rstrip(lstrip(collapse(SelectSeq(lower(Chars(texto)), IsKept)))))

analysis_analizar_sentimiento(comentario, net) ==
    IF comentario = "" THEN Fallback(comentario, comentario)
    ELSE LET comentario_trad == analysis_traducir_es_en(comentario, net)
             comentario_limpio == limpiar_texto(comentario_trad)
             scores == polarity_scores(comentario_limpio)
         IN [comentario_original |-> comentario,
             comentario_traducido |-> comentario_trad,
             neg |-> scores.neg, neu |-> scores.neu, pos |-> scores.pos,
             compound |-> scores.compound,
             sentimiento |-> analysis_clasificar_sentimiento(scores.compound),
             raised |-> FALSE]

analysis_Columnas ==
    <<"fecha", "nombre", "email", "comentario", "comentario_traducido",
      "neg", "neu", "pos", "compound", "sentimiento">>

\* The columns that hold text.
StringColumns == {"nombre", "email", "comentario", "comentario_traducido", "sentimiento"}

analysis_read_row(r) ==
    [c \in DOMAIN r |-> IF c \in StringColumns THEN read_cell(r[c]) ELSE r[c]]

\* to_csv writes None, like a missing value, as the empty field.
analysis_write_row(r) ==
    [c \in DOMAIN r |->
        IF c \in StringColumns THEN (IF r[c] = None THEN "" ELSE write_cell(r[c])) ELSE r[c]]

analysis_to_csv(df) ==
    CsvFile(df.columns, [i \in 1..Len(df.rows) |-> analysis_write_row(df.rows[i])])

\* cargar_dataset: the file's size is not looked at, and read_csv raises on
\* a file of length zero as on one it cannot parse.
analysis_cargar_dataset(f) ==
    IF exists(f)
    THEN IF f.kind \in {"zero", "corrupt"} THEN DataFrame(<<>>, <<>>)
         ELSE DataFrame(f.columns, [i \in 1..Len(f.rows) |-> analysis_read_row(f.rows[i])])
    ELSE DataFrame(analysis_Columnas, <<>>)

analysis_Fila(fecha, nombre, email, comentario, resultado) ==
    [fecha |-> fecha, nombre |-> nombre, email |-> email, comentario |-> comentario,
     comentario_traducido |-> resultado.comentario_traducido,
     neg |-> resultado.neg, neu |-> resultado.neu, pos |-> resultado.pos,
     compound |-> resultado.compound, sentimiento |-> resultado.sentimiento]

\* The rows inicializar_dataset builds, but for their fecha.
analysis_datos_sin_fecha ==
    [net \in NetOutcomes |->
        [i \in 1..15 |->
            analysis_Fila(0, "Ejemplo", "", COMENTARIOS_EJEMPLO[i],
                          analysis_analizar_sentimiento(COMENTARIOS_EJEMPLO[i], net))]]

analysis_inicializar_dataset(f, fecha, net) ==
    IF ~exists(f) \/ getsize(f) = 0
    THEN analysis_to_csv(DataFrame(analysis_Columnas,
             [i \in 1..15 |-> [analysis_datos_sin_fecha[net][i] EXCEPT !.fecha = fecha]]))
    ELSE f

analysis_analisis ==
    [comentario \in Comentarios |->
        [net \in NetOutcomes |-> analysis_analizar_sentimiento(comentario, net)]]

analysis_agregar_comentario(f, comentario, nombre, email, fecha, net) ==
    LET resultado_analisis == analysis_analisis[comentario][net]
        nueva_fila == analysis_Fila(fecha, IF nombre # "" THEN nombre ELSE "Anónimo",
                                    email, comentario, resultado_analisis)
        df == analysis_cargar_dataset(f)
    IN [success |-> TRUE, resultado |-> resultado_analisis,
        store |-> analysis_to_csv(
                     DataFrame(IF Len(df.columns) = 0 THEN analysis_Columnas ELSE df.columns,
                               Append(df.rows, nueva_fila)))]

\* --------------------------------------- the two modules, run side by side

\* The same operations are run by src/app.py on its file (store) and by
\* src/smartcities_analysis.py on a copy of it (store0), with the same clock
\* and the same answers of the translation service.

InitModulos ==
    /\ store \in {Absent, ZeroLength, Corrupt}
    /\ store0 = store
    /\ session = [c \in Clients |-> FALSE]
    /\ now = 0
    /\ assigned = <<>>
    /\ resp = NoResp
    /\ arg = 0
    /\ ret = NoRet
    /\ ThreadsIdle

ModulosInicializar ==
    /\ \E net \in NetOutcomes :
          /\ store' = inicializar_dataset(store, now, net, "ok")
          /\ store0' = analysis_inicializar_dataset(store0, now, net)
          /\ arg' = [op |-> "inicializar", net |-> net]
    /\ ret' = NoRet
    /\ UNCHANGED <<session, now, assigned, resp, pc, treq, tdf, tres>>

ModulosAgregar(form) ==
    LET comentario == stripped[form.comentario]
        nombre == stripped[form.nombre]
        email == stripped[form.email]
    IN /\ comentario \in Comentarios
       /\ Len(assigned) < MaxSubmits
       /\ \E net \in NetOutcomes :
             LET app == agregar_comentario(store, comentario, nombre, email, now, net, "ok")
                 analysis == analysis_agregar_comentario(store0, comentario, nombre, email,
                                                         now, net)
             IN /\ store' = app.store
                /\ store0' = analysis.store
                /\ assigned' = Append(assigned, app.id)
                /\ arg' = [op |-> "agregar", comentario |-> comentario, net |-> net]
                /\ ret' = [app |-> app.resultado, analysis |-> analysis.resultado]
       /\ UNCHANGED <<session, now, resp, pc, treq, tdf, tres>>

ModulosCargar ==
    /\ arg' = [op |-> "cargar"]
    /\ ret' = [app |-> cargar_dataset(store), analysis |-> analysis_cargar_dataset(store0)]
    /\ UNCHANGED <<store, store0, session, now, assigned, resp, pc, treq, tdf, tres>>

NextModulos ==
    \/ ModulosInicializar
    \/ \E form \in Forms : ModulosAgregar(form)
    \/ ModulosCargar

SpecModulos == InitModulos /\ [][NextModulos]_vars

\* ------------------------------------------ the classifier, called alone

\* The compound scores the classifier is called with: the ends of VADER's
\* range, zero, and every score within Margen of a threshold.
Compounds ==
    {-MaxCompound, 0, MaxCompound}
        \cup ((NegThreshold - Margen)..(NegThreshold + Margen))
        \cup ((PosThreshold - Margen)..(PosThreshold + Margen))

InitClasificar ==
    /\ arg \in Compounds
    /\ ret = NoRet
    /\ store = Absent
    /\ store0 = Absent
    /\ session = [c \in Clients |-> FALSE]
    /\ now = 0
    /\ assigned = <<>>
    /\ resp = NoResp
    /\ ThreadsIdle

\* Both modules' clasificar_sentimiento called with the same score.
Clasificar ==
    /\ ret = NoRet
    /\ ret' = [app |-> clasificar_sentimiento(arg),
               analysis |-> analysis_clasificar_sentimiento(arg)]
    /\ UNCHANGED <<store, store0, session, now, assigned, resp, pc, treq, tdf, tres, arg>>

NextClasificar == Clasificar

SpecClasificar == InitClasificar /\ [][NextClasificar]_vars

\* ------------------------------------------ the normalizer, called alone

InitTraducir ==
    /\ arg \in [texto : Texts, net : NetOutcomes]
    /\ ret = NoRet
    /\ store = Absent
    /\ store0 = Absent
    /\ session = [c \in Clients |-> FALSE]
    /\ now = 0
    /\ assigned = <<>>
    /\ resp = NoResp
    /\ ThreadsIdle

\* Both modules' traducir_es_en called with the same text; invoca records
\* whether the call reached GoogleTranslator.translate.
Traducir ==
    /\ ret = NoRet
    /\ ret' = [app |-> traducir_es_en(arg.texto, arg.net),
               analysis |-> analysis_traducir_es_en(arg.texto, arg.net),
               app_invoca |-> traduce(arg.texto),
               analysis_invoca |-> analysis_traduce(arg.texto)]
    /\ UNCHANGED <<store, store0, session, now, assigned, resp, pc, treq, tdf, tres, arg>>

NextTraducir == Traducir

SpecTraducir == InitTraducir /\ [][NextTraducir]_vars

\* ------------------------------------------------------------------ claims

\* The table a load returns now.
tabla == cargar_dataset(store).rows

\* How many of the rows carry the label.
RECURSIVE Carrying(_, _)
Carrying(rows, label) ==
    IF rows = <<>> THEN 0
    ELSE (IF Head(rows).sentimiento = label THEN 1 ELSE 0) + Carrying(Tail(rows), label)

\* C1: no two rows of the stored table have the same id.
C1_UniqueIds == \A i, j \in 1..Len(tabla) : i # j => tabla[i].id # tabla[j].id

\* A seeded table that took a submission and lost its first row.
C1_Witness == Len(tabla) >= 10 /\ 11 \in Ids(cargar_dataset(store)) /\ tabla[1].id # 1

\* C2: an id agregar_comentario gave to one stored record is never given to
\* a later one, whatever was deleted in between.
C2_IdNeverReused ==
    \A i, j \in 1..Len(assigned) : i # j => assigned[i] # assigned[j]

\* C5: a submission that agregar_comentario fails leaves the table as it
\* was, and one it completes adds exactly one row.
C5_SubmissionAtomic ==
    [][(resp'.op = "submit" /\ resp'.code = 500
            => cargar_dataset(store').rows = tabla)
       /\ (resp'.op = "submit" /\ resp'.code = 200
            => /\ Len(cargar_dataset(store').rows) = Len(tabla) + 1
               /\ SubSeq(cargar_dataset(store').rows, 1, Len(tabla)) = tabla)]_vars

\* C6: a submission whose scoring raised is answered with the internal
\* error (500, not the validation error 400) and writes no row.
C6_ScoringErrorSurfaced ==
    [][resp'.op = "submit" /\ resp'.raised
          => resp'.code = 500 /\ cargar_dataset(store').rows = tabla]_vars

\* C7: every stored row's sentimiento is the label of its own compound:
\* Positivo iff compound >= 0.05, Negativo iff compound <= -0.05, Neutro
\* otherwise.
C7_LabelMatchesCompound ==
    \A i \in 1..Len(tabla) :
        /\ tabla[i].sentimiento = "Positivo" <=> tabla[i].compound >= 500
        /\ tabla[i].sentimiento = "Negativo" <=> tabla[i].compound <= -500
        /\ tabla[i].sentimiento = "Neutro"
              <=> (tabla[i].compound > -500 /\ tabla[i].compound < 500)

\* Seed rows and a submitted row together, with a compound on each
\* threshold, and the last submission scored by the fallback path.
C7_Witness ==
    /\ resp.op = "submit" /\ resp.code = 200 /\ resp.raised
    /\ \E i \in 1..Len(tabla) : tabla[i].compound = 500
    /\ \E i \in 1..Len(tabla) : tabla[i].compound = -500
    /\ tabla[Len(tabla)].compound = 0 /\ tabla[Len(tabla)].id > 10

\* C8: the statistics a request returns are those of the rows now stored:
\* total is the row count and each label's count is the number of stored
\* rows carrying it.
C8_StatsCurrent ==
    resp.op = "stats" =>
        /\ resp.stats.total = Len(store.rows)
        /\ resp.stats.positivos = Carrying(store.rows, "Positivo")
        /\ resp.stats.negativos = Carrying(store.rows, "Negativo")
        /\ resp.stats.neutros = Carrying(store.rows, "Neutro")

\* Statistics asked for after a submission and a deletion, with a label no
\* row carries.
C8_Witness ==
    /\ resp.op = "stats" /\ Len(assigned) >= 1
    /\ resp.stats.total = 10 /\ store.rows[1].id # 1
    /\ resp.stats.neutros > 0 /\ resp.stats.negativos = 0

\* C9: a delete of an id the table holds removes that one row: the table
\* afterwards is the table before without it, one row shorter.
C9_DeleteRemovesOne ==
    [][resp'.op = "delete" /\ resp'.page = "admin_dashboard" /\ resp'.found
          => \E k \in 1..Len(tabla) :
                /\ tabla[k].id = resp'.id
                /\ cargar_dataset(store').rows
                      = SubSeq(tabla, 1, k - 1) \o SubSeq(tabla, k + 1, Len(tabla))
                /\ Len(cargar_dataset(store').rows) = Len(tabla) - 1]_vars

\* A row other than the first deleted from a table of several rows.
C9_Witness ==
    /\ resp.op = "delete" /\ resp.page = "admin_dashboard" /\ resp.found
    /\ resp.id = 11 /\ Len(tabla) >= 9

\* C10: a delete of an id no stored row has reports no error and leaves the
\* rows as they were (the file write not failing).
C10_DeleteMissingNoop ==
    [][resp'.op = "delete" /\ ~resp'.found /\ resp'.io = "ok"
          => resp'.code = 302 /\ cargar_dataset(store').rows = tabla]_vars

\* An id that was deleted before, deleted again from a table with rows.
C10_Witness ==
    /\ resp.op = "delete" /\ resp.page = "admin_dashboard" /\ ~resp.found
    /\ resp.id = 1 /\ Len(tabla) >= 9

\* What one request does to the file when it runs alone.
Alone(req, f) ==
    CASE req.op = "submit" ->
            agregar_comentario(f, req.comentario, req.nombre, req.email, now, req.net, "ok").store
      [] req.op = "delete" ->
            IF ~empty(cargar_dataset(f)) /\ has_column(cargar_dataset(f), "id")
            THEN to_csv(f, drop_id(cargar_dataset(f), req.id), "ok")
            ELSE f
      [] OTHER -> f

IsWrite(req) == req.op \in {"submit", "delete"}

\* C3: two write requests handled at the same time leave the table that
\* running them one after the other, in one order or the other, leaves.
C3_WritesSerialize ==
    (\A t \in Threads : pc[t] = "done" /\ IsWrite(treq[t])) =>
        tabla \in {cargar_dataset(Alone(treq[o[2]], Alone(treq[o[1]], store0))).rows :
                      o \in {q \in Threads \X Threads : q[1] # q[2]}}

\* C4: a read that runs beside a write returns the table as it was before
\* the write or as it is after it.
C4_ReadsSeeWholeTable ==
    \A t \in Threads :
        pc[t] = "done" /\ treq[t].op = "stats" =>
            tdf[t].rows \in {cargar_dataset(store0).rows}
                \cup {cargar_dataset(Alone(treq[u], store0)).rows :
                          u \in {v \in Threads \ {t} : pc[v] # "idle"}}

\* The rows a load returns after the step.
tabla_next == cargar_dataset(store').rows

\* C11: the load that follows a successful append has a row that matches the
\* appended record in author name, email, original comment, translated
\* comment, the four scores and the label.
C11_RoundTrip ==
    [][resp'.op = "submit" /\ resp'.code = 200
          => \E i \in 1..Len(tabla_next) :
                LET row == tabla_next[i]
                    r == resp'.fila
                IN /\ row.nombre = r.nombre
                   /\ row.email = r.email
                   /\ row.comentario = r.comentario
                   /\ row.negativo = r.negativo /\ row.neutro = r.neutro
                   /\ row.positivo = r.positivo /\ row.compound = r.compound
                   /\ row.sentimiento = r.sentimiento
                   /\ "comentario_traducido" \in DOMAIN row
                   /\ row.comentario_traducido = resp'.traducido]_vars

\* C12: an append that succeeds on a table whose ids are 1..N (none of them,
\* for the empty store) leaves a table of N + 1 rows whose ids are 1..N+1; so
\* N appends in a row from the empty store leave exactly the ids 1..N.
C12_SequentialIds ==
    [][resp'.op = "submit" /\ resp'.code = 200
            /\ Ids(cargar_dataset(store)) = 1..Len(tabla)
          => /\ Len(tabla_next) = Len(tabla) + 1
             /\ Ids(cargar_dataset(store')) = 1..(Len(tabla) + 1)]_vars

\* Two appends from the absent file, the second just answered.
C12_Witness ==
    /\ resp.op = "submit" /\ resp.code = 200
    /\ assigned = <<1, 2>> /\ Len(tabla) = 2
    /\ tabla[1].id = 1 /\ tabla[2].id = 2

\* C13: whatever the file is (absent, of length zero, unparseable, holding
\* rows or only its header), the table a load returns has the ten columns.
C13_LoadHasSchema == cargar_dataset(store).columns = Columnas

\* The forms whose comment is empty once stripped, or longer than 1000.
Invalidas ==
    {form \in Forms :
        LET c == rstrip(lstrip(Chars(form.comentario))) IN c = <<>> \/ Len(c) > 1000}

\* C14: a submission whose comment is empty once stripped or longer than
\* 1000 characters is answered 400 (not 500) and reads no clock, assigns no
\* id and leaves the file as it was.
C14_ValidationRejects ==
    [][\A form \in Invalidas :
          submit_comment(form)
             => /\ resp'.code = 400 /\ resp'.code # 500
                /\ store' = store /\ now' = now /\ assigned' = assigned]_vars

\* A rejected submission when the table has rows.
C14_Witness == resp.op = "submit" /\ resp.code = 400 /\ Len(tabla) >= 10

\* C15: inicializar_dataset run on an absent or zero-length file (its write
\* not failing) leaves the ten examples, in order, with ids 1..10, each
\* labelled by its own compound; the load that follows is not empty.
C15_SeedsWhenEmpty ==
    [][resp'.op = "main" /\ resp'.io = "ok" /\ store.kind \in {"absent", "zero"}
          => /\ Len(tabla_next) >= 10
             /\ Len(tabla_next) = Len(ejemplos)
             /\ \A i \in 1..Len(tabla_next) :
                   /\ tabla_next[i].id = i
                   /\ tabla_next[i].comentario = ejemplos[i][1]
                   /\ tabla_next[i].nombre = ejemplos[i][2]
                   /\ tabla_next[i].sentimiento
                         = clasificar_sentimiento(tabla_next[i].compound)]_vars

\* The examples written, translated and scored.
C15_Witness ==
    /\ resp.op = "main" /\ resp.io = "ok" /\ Len(tabla) = 10
    /\ tabla[1].compound = -500 /\ tabla[10].id = 10

\* C16: when the translation call fails, traducir_es_en returns the text it
\* was given, and the submission is answered 200 with the row stored, scored
\* on that text and labelled by that score.
C16_TranslationFallback ==
    [][resp'.op = "submit" /\ resp'.net = "error" /\ resp'.io = "ok"
          => /\ resp'.code = 200 /\ ~resp'.raised
             /\ resp'.traducido = resp'.fila.comentario
             /\ LET row == tabla_next[Len(tabla_next)] IN
                   /\ row.id = resp'.fila.id
                   /\ row.compound = polarity_scores(resp'.fila.comentario).compound
                   /\ row.sentimiento = clasificar_sentimiento(row.compound)]_vars

\* A Spanish comment stored with the score of its untranslated text.
C16_Witness ==
    /\ resp.op = "submit" /\ resp.net = "error" /\ resp.code = 200
    /\ resp.traducido = "Buen servicio"
    /\ tabla[Len(tabla)].compound = 499 /\ tabla[Len(tabla)].sentimiento = "Neutro"

\* C17: for every compound, both modules' clasificar_sentimiento return the
\* same label: Positivo from 0.05 up, Negativo from -0.05 down, Neutro
\* strictly between.
C17_Thresholds ==
    ret # NoRet =>
        /\ ret.app = (IF arg >= 500 THEN "Positivo"
                      ELSE IF arg <= -500 THEN "Negativo" ELSE "Neutro")
        /\ ret.analysis = ret.app

\* The score just under the positive threshold, classified.
C17_Witness == arg = 499 /\ ret.app = "Neutro" /\ ret.analysis = "Neutro"

\* C18: statistics asked for when the loaded table has no rows are total 0,
\* each count 0 and mean compound 0.0.
C18_EmptyStats ==
    resp.op = "stats" /\ Len(tabla) = 0 =>
        /\ resp.stats.total = 0
        /\ resp.stats.positivos = 0
        /\ resp.stats.negativos = 0
        /\ resp.stats.neutros = 0
        /\ resp.stats.promedio_compound = [num |-> 0, den |-> 1]

\* Statistics of a file left with its header only, every row deleted.
C18_Witness ==
    /\ resp.op = "stats" /\ store.kind = "csv" /\ Len(store.rows) = 0
    /\ Len(assigned) >= 1

\* The rows in the reverse of the order they were appended in.
Reverse(rows) == [i \in 1..Len(rows) |-> rows[Len(rows) + 1 - i]]

\* C19: the dashboard lists the (at most 10) records created last, from
\* the one created last to the one created first.
C19_RecentFirst ==
    resp.op = "dashboard" /\ resp.code = 200 =>
        resp.ultimos_comentarios
            = SubSeq(Reverse(tabla), 1, IF Len(tabla) < 10 THEN Len(tabla) ELSE 10)

\* C20: in the file, an append leaves every row it found as it was, and a
\* delete leaves every row of another id as it was.
C20_RowsImmutable ==
    [][/\ resp'.op = "submit" /\ resp'.code = 200
            => /\ Len(store'.rows) = Len(store.rows) + 1
               /\ \A i \in 1..Len(store.rows) : store'.rows[i] = store.rows[i]
       /\ resp'.op = "delete" /\ resp'.code = 302
            => \A j \in 1..Len(store.rows) :
                  store.rows[j].id # resp'.id
                     => \E i \in 1..Len(store'.rows) : store'.rows[i] = store.rows[j]]_vars

\* A word is one of the whitespace-delimited tokens of a text, texto.split().
IsToken(cs, word) ==
    \E i \in 1..(Len(cs) - Len(word) + 1) :
        /\ SubSeq(cs, i, i + Len(word) - 1) = word
        /\ i = 1 \/ IsSpace(cs[i - 1])
        /\ i + Len(word) - 1 = Len(cs) \/ IsSpace(cs[i + Len(word)])

\* The stated condition: a non-empty text of more than one token, one of
\* whose lowercase tokens is a stop word.
StopWordToken(texto) ==
    LET cs == lower(Chars(texto)) IN
    /\ texto # ""
    /\ split_len(cs) > 1
    /\ \E palabra \in palabras_es : IsToken(cs, palabra)

\* C21: in both modules the normalizer calls the translation service exactly
\* when the text is non-empty, has more than one token and one of its
\* lowercase tokens is a stop word; otherwise it returns the text unchanged.
C21_TranslatesOnStopWordToken ==
    ret # NoRet =>
        /\ ret.app_invoca <=> StopWordToken(arg.texto)
        /\ ret.analysis_invoca <=> StopWordToken(arg.texto)
        /\ ~StopWordToken(arg.texto) => ret.app = arg.texto /\ ret.analysis = arg.texto

\* C22: run on the same operations from the same file, the two modules
\* leave the same file (columns and rows), load the same table, and on an
\* append decide alike whether to translate, score the same text and give
\* the same label.
C22_ModulesAgree ==
    /\ store0 = store
    /\ arg # 0 /\ arg.op = "cargar" => ret.app = ret.analysis
    /\ arg # 0 /\ arg.op = "agregar" =>
          /\ traduce(arg.comentario) = analysis_traduce(arg.comentario)
          /\ limpiar_texto(ret.analysis.comentario_traducido) = ret.app.comentario_traducido
          /\ ret.app.sentimiento = ret.analysis.sentimiento

\* C23: a delete request changes the file only when its session is logged
\* in; a session becomes logged in only by a login with the right password,
\* a login with a wrong one leaves it as it was, and a logout ends it.
C23_DeleteGated ==
    [][\A c \in Clients :
          /\ \A id \in DeleteIds :
                delete_comment(c, id) /\ ~session[c] => store' = store
          /\ \A id \in DeleteIds :
                delete_comment(c, id) /\ store' # store => session[c]
          /\ ~session[c] /\ session'[c] => admin_login(c, ADMIN_PASSWORD)
          /\ \A password \in Passwords \ {ADMIN_PASSWORD} :
                admin_login(c, password) => session'[c] = session[c]
          /\ admin_logout(c) => ~session'[c]]_vars

\* A delete of a stored row's id refused, after a submission: the session
\* not logged in, the row still there.
C23_Witness ==
    /\ resp.op = "delete" /\ resp.page = "admin_login" /\ resp.found
    /\ \A c \in Clients : ~session[c]
    /\ Len(assigned) >= 1 /\ resp.id \in Ids(cargar_dataset(store))

\* C24: started when the file already holds a row, the program leaves the
\* file as it is: every row stored before the start is stored after it.
C24_StartKeepsRows ==
    [][resp'.op = "main" /\ Len(tabla) >= 1
          => store' = store /\ tabla_next = tabla]_vars

\* The program started again after a submission, the submitted row last.
C24_Witness ==
    /\ resp.op = "main" /\ Len(assigned) >= 1
    /\ Len(tabla) >= 11 /\ tabla[Len(tabla)].id = 11

\* C25: whatever the file holds, the statistics' three counts add up to the
\* total, and every row of the table carries one of the three labels.
C25_StatsPartition ==
    LET stats == obtener_estadisticas(store) IN
    /\ stats.total = stats.positivos + stats.negativos + stats.neutros
    /\ \A i \in 1..Len(tabla) :
          tabla[i].sentimiento \in {"Positivo", "Negativo", "Neutro"}

\* A table with rows of each label, one of them submitted.
C25_Witness ==
    LET stats == obtener_estadisticas(store) IN
    /\ Len(assigned) >= 1 /\ stats.total >= 11
    /\ stats.positivos > 0 /\ stats.negativos > 0 /\ stats.neutros > 0

====
